---- MODULE Spec2Model ----
(***************************************************************************)
(* Model of the retrieval engine of the traffic-law chatbot:               *)
(*   - VietnameseTextProcessor.chunk_text and the cleaning / sentence      *)
(*     splitting it relies on (shared/utils/text_processing.py);           *)
(*   - VectorStoreManager: create_index, train_index, add_vectors, search, *)
(*     save_index, load_index (shared/utils/vector_operations.py).         *)
(* Strings are sequences of one-character strings.                         *)
(***************************************************************************)
EXTENDS Integers, Sequences, FiniteSets, TLC

VARIABLES
    \* ---- chunk_text: arguments and locals of one call ----
    text,           \* argument text
    chunk_size,     \* argument chunk_size as passed by the caller
    overlap,        \* argument overlap as passed by the caller
    cpc,            \* position in chunk_text: "idle", "loop", "done"
    sentences,      \* local sentences
    sent_i,         \* index of the next sentence of the for loop
    chunks,         \* local chunks (the returned list once cpc = "done")
    current_chunk,  \* local current_chunk
    current_size,   \* local current_size
    chunk_index,    \* local chunk_index
    \* ---- VectorStoreManager and what surrounds it ----
    index_type,     \* self.config.vector.faiss_index_type
    index,          \* self.index
    metadata,       \* self.metadata
    manifest,       \* self.manifest
    fsIndex,        \* the index files on disk, by path
    fsMetadata,     \* the metadata files on disk, by path
    fsManifest,     \* the manifest files on disk, by path
    fed,            \* number of chunks the indexing job has handed out so far
    lastOp,         \* the last call on the manager and how it ended
    \* ---- EmbeddingManager ----
    cache,          \* self.cache
    embedOut,       \* the last call on the embedding manager and what it returned
    \* ---- ChatBot ----
    chat_memory_buffer, \* self.chat_memory_buffer
    retrieval,          \* self.retrieval
    botOut,             \* the last process_query call and how it ended
    \* ---- a call through the decorator of create_retry_decorator ----
    wrapped,        \* the function the decorator was applied to
    max_attempts,   \* argument max_attempts of create_retry_decorator
    retry_pc,       \* "idle", "attempting", "sleeping", "returned", "raised"
    attempt_number, \* retry_state.attempt_number
    invocations,    \* how many times the wrapped function was invoked in this call
    last_exception, \* retry_state.outcome.exception() of the last attempt
    retry_raised,   \* what the call raised to its caller
    \* ---- two threads on the manager of get_vector_store_manager ----
    add_pc,         \* the thread in add_vectors: "idle", "storing"
    add_start_id,   \* its local start_id
    add_metadata,   \* its argument metadata
    add_i,          \* how many entries its metadata loop has stored
    search_pc,      \* the thread in search: "idle", "searched"
    search_found    \* its arguments and what self.index.search returned to it

chunkVars == <<text, chunk_size, overlap, cpc, sentences, sent_i, chunks,
               current_chunk, current_size, chunk_index>>

storeVars == <<index_type, index, metadata, manifest, fsIndex, fsMetadata,
               fsManifest, fed, lastOp>>

embedVars == <<cache, embedOut>>

botVars == <<chat_memory_buffer, retrieval, botOut>>

retryVars == <<wrapped, max_attempts, retry_pc, attempt_number, invocations,
               last_exception, retry_raised>>

threadVars == <<add_pc, add_start_id, add_metadata, add_i, search_pc, search_found>>

vars == <<chunkVars, storeVars, embedVars, botVars, retryVars, threadVars>>

(* what a method of one component leaves alone: the other components *)
outsideChunk == <<storeVars, embedVars, botVars, retryVars, threadVars>>

outsideStore == <<chunkVars, embedVars, botVars, retryVars, threadVars>>

outsideEmbed == <<chunkVars, storeVars, botVars, retryVars, threadVars>>

outsideBot == <<chunkVars, storeVars, embedVars, retryVars, threadVars>>

(* a wrapped call reaches the manager; the rest is left alone *)
outsideRetry == <<chunkVars, embedVars, botVars, threadVars>>

(* what a thread inside the manager leaves alone *)
outsideThreads == <<chunkVars, embedVars, botVars, retryVars>>

-----------------------------------------------------------------------------
(* Bounds of the chunker inputs *)

MaxTextLen == 7

Alphabet == {"a", ".", " "}

ChunkSizes == {0, 1, 3}

Overlaps == {0, 1, 3}

(* TextConfig defaults *)
ConfigChunkSize == 512

ConfigChunkOverlap == 50

-----------------------------------------------------------------------------
(* String helpers *)

Whitespace == {" "}

SentenceEnders == {".", "!", "?"}

(* str.strip() *)
Strip(s) ==
    LET ink == {i \in 1..Len(s) : s[i] \notin Whitespace}
    IN  IF ink = {} THEN <<>>
        ELSE LET a == CHOOSE i \in ink : \A j \in ink : i <= j
                 b == CHOOSE i \in ink : \A j \in ink : i >= j
             IN  SubSeq(s, a, b)

RECURSIVE CollapseWhitespaceFrom(_, _)
CollapseWhitespaceFrom(s, i) ==
    IF i > Len(s) THEN <<>>
    ELSE IF s[i] \in Whitespace
         THEN IF i > 1 /\ s[i-1] \in Whitespace
              THEN CollapseWhitespaceFrom(s, i + 1)
              ELSE <<" ">> \o CollapseWhitespaceFrom(s, i + 1)
         ELSE <<s[i]>> \o CollapseWhitespaceFrom(s, i + 1)

(* re.sub(r'\s+', ' ', s) *)
CollapseWhitespace(s) == CollapseWhitespaceFrom(s, 1)

RECURSIVE CollapseRunsFrom(_, _, _, _)
CollapseRunsFrom(s, c, keep, i) ==
    IF i > Len(s) THEN <<>>
    ELSE IF /\ s[i] = c
            /\ i > keep
            /\ \A j \in (i - keep)..(i - 1) : s[j] = c
         THEN CollapseRunsFrom(s, c, keep, i + 1)
         ELSE <<s[i]>> \o CollapseRunsFrom(s, c, keep, i + 1)

(* re.sub(r'[c]{keep+1,}', c * keep, s) and, for keep = 3, r'[c]{3,}': of a
   run of more than keep characters c only the first keep remain *)
CollapseRuns(s, c, keep) == CollapseRunsFrom(s, c, keep, 1)

(* the last n characters of s, all of s when it is not longer than n *)
LastChars(s, n) == IF Len(s) > n THEN SubSeq(s, Len(s) - n + 1, Len(s)) ELSE s

RECURSIVE JoinWithSpace(_)
(* ' '.join(parts) *)
JoinWithSpace(parts) ==
    IF parts = <<>> THEN <<>>
    ELSE IF Len(parts) = 1 THEN parts[1]
    ELSE parts[1] \o <<" ">> \o JoinWithSpace(Tail(parts))

RECURSIVE SumLen(_)
(* len(''.join(parts)) *)
SumLen(parts) == IF parts = <<>> THEN 0 ELSE Len(parts[1]) + SumLen(Tail(parts))

-----------------------------------------------------------------------------
(* normalize_text, clean_text, _split_sentences *)

(* Each stage is bound to its value (v \in {e}) before the next one reads it,
   as the successive assignments to `text` in the source do. *)
normalize_text(t) ==
    IF t = <<>> THEN <<>>
    ELSE CHOOSE r \in {Strip(c) : c \in {CollapseWhitespace(t)}} : TRUE

clean_text(t) ==
    IF t = <<>> THEN <<>>
    ELSE CHOOSE r \in
           {Strip(w) :
             w \in {CollapseWhitespace(q) :
               q \in {CollapseRuns(e, "?", 1) :
                 e \in {CollapseRuns(d, "!", 1) :
                   d \in {CollapseRuns(n, ".", 3) :
                     n \in {normalize_text(t)}}}}}} : TRUE

RECURSIVE ClosesSentence(_, _)
(* the run of sentence enders through position j is followed by whitespace or
   by the end of s: (?:\s|$) *)
ClosesSentence(s, j) ==
    IF j = Len(s) THEN TRUE
    ELSE IF s[j+1] \in SentenceEnders THEN ClosesSentence(s, j + 1)
    ELSE s[j+1] \in Whitespace

(* position i of s is consumed by a match of [.!?]+(?:\s|$) *)
IsSeparator(s, i) ==
    \/ s[i] \in SentenceEnders /\ ClosesSentence(s, i)
    \/ /\ s[i] \in Whitespace
       /\ i > 1
       /\ s[i-1] \in SentenceEnders

RECURSIVE SplitFrom(_, _, _)
(* re.split: the pieces of s between the separators, from index i on, cur being
   the piece under construction *)
SplitFrom(s, i, cur) ==
    IF i > Len(s) THEN <<cur>>
    ELSE IF IsSeparator(s, i)
         THEN IF i > 1 /\ IsSeparator(s, i - 1)
              THEN SplitFrom(s, i + 1, cur)
              ELSE <<cur>> \o SplitFrom(s, i + 1, <<>>)
         ELSE SplitFrom(s, i + 1, Append(cur, s[i]))

RECURSIVE StripNonEmpty(_)
(* [s.strip() for s in pieces if s.strip()] *)
StripNonEmpty(pieces) ==
    IF pieces = <<>> THEN <<>>
    ELSE IF Strip(pieces[1]) = <<>> THEN StripNonEmpty(Tail(pieces))
    ELSE <<Strip(pieces[1])>> \o StripNonEmpty(Tail(pieces))

split_sentences(t) ==
    CHOOSE r \in {StripNonEmpty(SplitFrom(v, 1, <<>>)) : v \in {t}} : TRUE

-----------------------------------------------------------------------------
(* chunk_text *)

(* Python's `v or d` on an integer argument: 0 is falsy *)
OrDefault(v, d) == IF v = 0 THEN d ELSE v

(* chunk_size = chunk_size or self.config.text.chunk_size *)
EffectiveChunkSize == OrDefault(chunk_size, ConfigChunkSize)

(* overlap = overlap or self.config.text.chunk_overlap *)
EffectiveOverlap == OrDefault(overlap, ConfigChunkOverlap)

RECURSIVE Contents(_)
Contents(cs) == IF cs = <<>> THEN <<>> ELSE <<cs[1].content>> \o Contents(Tail(cs))

(* the dict appended to chunks when the buffer is sealed or flushed *)
MakeChunk(prev, idx, buf, size) ==
    [chunk_index |-> idx,
     content     |-> Strip(buf),
     size        |-> size,
     start_pos   |-> SumLen(Contents(prev)),
     end_pos     |-> SumLen(Contents(prev)) + size]

(* mutant of SealsBefore: the `and current_chunk` guard is missing *)
SealsBeforeEvenWhenEmpty(sentence) ==
    current_size + Len(sentence) > EffectiveChunkSize

(* the condition under which the running buffer is sealed before a sentence *)
SealsBefore(sentence) ==
    current_size + Len(sentence) > EffectiveChunkSize /\ current_chunk # <<>>

(* mutant of SeededBuffer: the sentence that overflowed is not carried over *)
SeededBufferLosesSentence(buf, sentence) ==
    IF EffectiveOverlap > 0
    THEN LastChars(buf, EffectiveOverlap)
    ELSE <<>>

(* the buffer a sealed chunk leaves behind for the sentence that overflowed *)
SeededBuffer(buf, sentence) ==
    IF EffectiveOverlap > 0
    THEN LastChars(buf, EffectiveOverlap) \o <<" ">> \o sentence
    ELSE sentence

(* no call of chunk_text has been made *)
ChunkIdle ==
    /\ text = <<>>
    /\ chunk_size = 0
    /\ overlap = 0
    /\ cpc = "idle"
    /\ sentences = <<>>
    /\ sent_i = 1
    /\ chunks = <<>>
    /\ current_chunk = <<>>
    /\ current_size = 0
    /\ chunk_index = 0

(* a call chunk_text(text, chunk_size, overlap), up to the head of the for
   loop: `if not text: return []`, the cleaning and the sentence splitting *)
ChunkCall ==
    /\ cpc = "idle"
    /\ \E t \in UNION {[1..n -> Alphabet] : n \in 0..MaxTextLen} :
          /\ text' = t
          /\ IF t = <<>>
             THEN sentences' = <<>> /\ cpc' = "done"
             ELSE sentences' = split_sentences(clean_text(t)) /\ cpc' = "loop"
    /\ chunk_size' \in ChunkSizes
    /\ overlap' \in Overlaps
    /\ UNCHANGED <<sent_i, chunks, current_chunk, current_size, chunk_index>>
    /\ UNCHANGED outsideChunk

(* one iteration of `for sentence in sentences`, sealing branch *)
ChunkSeal ==
    /\ cpc = "loop"
    /\ sent_i <= Len(sentences)
    /\ LET sentence == sentences[sent_i]
       IN  /\ SealsBefore(sentence)
           /\ chunks' = Append(chunks,
                               MakeChunk(SubSeq(chunks, 1, chunk_index), chunk_index,
                                         current_chunk, current_size))
           /\ current_chunk' = SeededBuffer(current_chunk, sentence)
           /\ current_size' = IF EffectiveOverlap > 0
                              THEN Len(SeededBuffer(current_chunk, sentence))
                              ELSE Len(sentence)
           /\ chunk_index' = chunk_index + 1
    /\ sent_i' = sent_i + 1
    /\ UNCHANGED <<text, chunk_size, overlap, cpc, sentences>>
    /\ UNCHANGED outsideChunk

(* one iteration of `for sentence in sentences`, accumulating branch *)
ChunkAccumulate ==
    /\ cpc = "loop"
    /\ sent_i <= Len(sentences)
    /\ LET sentence == sentences[sent_i]
           grown == IF current_chunk # <<>>
                    THEN current_chunk \o <<" ">> \o sentence
                    ELSE sentence
       IN  /\ ~SealsBefore(sentence)
           /\ current_chunk' = grown
           /\ current_size' = current_size + Len(sentence)
                                + (IF grown # sentence THEN 1 ELSE 0)
    /\ sent_i' = sent_i + 1
    /\ UNCHANGED <<text, chunk_size, overlap, cpc, sentences, chunks, chunk_index>>
    /\ UNCHANGED outsideChunk

(* the final flush and the return *)
ChunkFlush ==
    /\ cpc = "loop"
    /\ sent_i > Len(sentences)
    /\ chunks' = IF Strip(current_chunk) # <<>>
                 THEN Append(chunks, MakeChunk(chunks, chunk_index,
                                               current_chunk, current_size))
                 ELSE chunks
    /\ cpc' = "done"
    /\ UNCHANGED <<text, chunk_size, overlap, sentences, sent_i,
                   current_chunk, current_size, chunk_index>>
    /\ UNCHANGED outsideChunk

(* the steps of a call that is under way *)
ChunkStep ==
    \/ ChunkSeal
    \/ ChunkAccumulate
    \/ ChunkFlush

-----------------------------------------------------------------------------
(* Bounds of the vector store *)

(* cap on index.ntotal *)
MaxVectors == 3

(* largest batch handed to add_vectors and train_index *)
MaxBatch == 2

(* number of chunks the indexing job produces *)
MaxChunks == 4

(* largest k passed to search *)
MaxK == 3

(* the nlist of the configured inverted-file index ("IVF<nlist>,Flat") *)
NList == 2

(* embeddings and queries are points of one coordinate *)
Coords == 0..3

(* confidence thresholds passed to search, in tenths *)
Thresholds == {-5, 0, 3, 10}

Paths == {"p", "q"}

(* the directory the indexing job saves to; nothing is ever written to the
   other path *)
SavePaths == {"p"}

(* VECTOR_CONFIG: default_top_k, and default_confidence in tenths *)
ConfigTopK == 5

ConfigConfidence == 7

(* the distance faiss reports in a slot it could not fill (label -1); it
   stands for the largest float32 *)
FltMax == 1000

(* the values of config.vector.faiss_index_type: "Flat", "IVF<NList>,Flat",
   "IVF<NList>,PQ8" and "HNSW32" *)
FlatType == [family |-> "Flat", nlist |-> 0, quantizer |-> "Flat"]

IvfFlatType == [family |-> "IVF", nlist |-> NList, quantizer |-> "Flat"]

IvfPqType == [family |-> "IVF", nlist |-> NList, quantizer |-> "PQ8"]

HnswType == [family |-> "HNSW32", nlist |-> 0, quantizer |-> "Flat"]

ConfigIndexTypes == {FlatType, IvfFlatType, IvfPqType, HnswType}

-----------------------------------------------------------------------------
(* Python values *)

(* self.index = None, self.manifest = None *)
NoIndex == [kind |-> "None"]

NoManifest == [version |-> "None"]

(* {} *)
EmptyDict == <<>>

(* d.get(key): <<value>>, or <<>> for None *)
Get(d, key) == IF key \in DOMAIN d THEN <<d[key]>> ELSE <<>>

(* d.get(key, default) *)
GetOr(d, key, default) == IF key \in DOMAIN d THEN d[key] ELSE default

DigitChars == <<"0", "1", "2", "3", "4", "5", "6", "7", "8", "9">>

RECURSIVE IntToStr(_)
(* str(n) for n >= 0, which is how json.dump writes an integer key *)
IntToStr(n) ==
    IF n < 10 THEN <<DigitChars[n + 1]>>
    ELSE IntToStr(n \div 10) \o <<DigitChars[(n % 10) + 1]>>

RECURSIVE StrToInt(_)
(* int(k) *)
StrToInt(k) ==
    LET digit(c) == CHOOSE d \in 0..9 : DigitChars[d + 1] = c
    IN  IF Len(k) = 1 THEN digit(k[1])
        ELSE 10 * StrToInt(SubSeq(k, 1, Len(k) - 1)) + digit(k[Len(k)])

-----------------------------------------------------------------------------
(* The chunks the indexing job hands to the manager *)

(* the metadata dict of chunk c; the last chunk carries no document_id *)
MetaOf(c) ==
    LET base == [chunk_id    |-> <<"c", c>>,
                 content     |-> "text",
                 source_file |-> IF c <= 2 THEN "a.pdf" ELSE "b.pdf",
                 page_number |-> c]
        doc  == [document_id |-> IF c <= 2 THEN "d1" ELSE "d2"]
    IN  IF c = MaxChunks THEN base ELSE base @@ doc

(* the embedding of chunk c *)
EmbedOf(c) == c

NextMetas(m) == [i \in 1..m |-> MetaOf(fed + i)]

NextEmbeddings(n) == [i \in 1..n |-> EmbedOf(fed + i)]

-----------------------------------------------------------------------------
(* The faiss index *)

ntotal(ix) == Len(ix.vecs)

(* faiss.IndexFlatL2(dimension) *)
IndexFlatL2 == [kind |-> "Flat", nlist |-> 0, is_trained |-> TRUE, vecs |-> <<>>]

(* faiss.IndexIVFFlat(quantizer, dimension, nlist) *)
IndexIVFFlat(nlist) ==
    [kind |-> "IVF", nlist |-> nlist, is_trained |-> FALSE, vecs |-> <<>>]

(* squared L2 distance *)
Distance(v, q) == (v - q) * (v - q)

(* the vectors an index scans for a query: all of them for a flat index, the
   inverted list it probes for an inverted-file index (any subset) *)
Scanned(ix) ==
    IF ix.kind = "Flat" THEN {0..(ntotal(ix) - 1)}
    ELSE SUBSET (0..(ntotal(ix) - 1))

RECURSIVE Ranked(_, _, _)
(* the ways to list the vectors C by ascending distance to q, vectors at the
   same distance in any order *)
Ranked(ix, q, C) ==
    IF C = {} THEN {<<>>}
    ELSE LET dist(id) == Distance(ix.vecs[id + 1], q)
             nearest == {id \in C : \A other \in C : dist(id) <= dist(other)}
         IN  UNION {{<<id>> \o o : o \in Ranked(ix, q, C \ {id})} : id \in nearest}

(* index.search(query, k): k slots in ascending distance, ties in any order,
   the slots that cannot be filled holding label -1 at distance FltMax *)
FaissSearch(ix, q, k) ==
    {[i \in 1..k |-> IF i <= Len(o)
                     THEN [idx |-> o[i], dist |-> Distance(ix.vecs[o[i] + 1], q)]
                     ELSE [idx |-> -1, dist |-> FltMax]] :
        o \in UNION {Ranked(ix, q, C) : C \in Scanned(ix)}}

-----------------------------------------------------------------------------
(* Similarity scores.  A score [num, den] is the number
   (num + eps) / (den + eps) with eps = 1e-8; distances are integers, so eps
   never decides a comparison that the integers do not decide. *)

(* mutant of Similarity: the quotient is not subtracted from 1.0 *)
SimilarityAsQuotient(distance, max_distance) ==
    [num |-> distance, den |-> max_distance]

(* mutant of Similarity: the distance is divided by a fixed constant, not by
   the batch's own maximum *)
SimilarityAgainstFltMax(distance, max_distance) ==
    [num |-> FltMax - distance, den |-> FltMax]

(* 1.0 - distance / (max_distance + 1e-8); against FltMax the quotient of a
   real distance rounds to 0 *)
Similarity(distance, max_distance) ==
    IF max_distance = FltMax /\ distance # FltMax
    THEN [num |-> max_distance, den |-> max_distance]
    ELSE [num |-> max_distance - distance, den |-> max_distance]

(* score >= tenths / 10 *)
ScoreAtLeast(score, tenths) ==
    10 * score.num - tenths * score.den >= (IF tenths > 10 THEN 1 ELSE 0)

(* a >= b for two scores *)
ScoreGE(a, b) == a.num * b.den >= b.num * a.den

MaxOf(S) == CHOOSE x \in S : \A y \in S : x >= y

-----------------------------------------------------------------------------
(* VectorStoreManager *)

Outcome(op, error) == [op |-> op, error |-> error]

(* the manager as the constructor leaves it, on an empty disk *)
StoreConstructed ==
    /\ index = NoIndex
    /\ metadata = EmptyDict
    /\ manifest = NoManifest
    /\ fsIndex = [p \in Paths |-> [exists |-> FALSE]]
    /\ fsMetadata = [p \in Paths |-> [exists |-> FALSE]]
    /\ fsManifest = [p \in Paths |-> [exists |-> FALSE]]
    /\ fed = 0
    /\ lastOp = Outcome("__init__", "none")

(* the index create_index builds for the configured type, or the error *)
CreatedIndex(type) ==
    IF type.family = "Flat" THEN [error |-> "none", index |-> IndexFlatL2]
    ELSE IF type.family = "IVF"
         THEN IF type.quantizer = "Flat"
              THEN [error |-> "none", index |-> IndexIVFFlat(type.nlist)]
              ELSE [error |-> "VectorSearchError", index |-> NoIndex]
         ELSE [error |-> "VectorSearchError", index |-> NoIndex]

(* what create_index does to the manager *)
CreateIndexEffect ==
    /\ LET made == CreatedIndex(index_type)
       IN  /\ index' = IF made.error = "none" THEN made.index ELSE index
           /\ lastOp' = Outcome("create_index", made.error)
    /\ UNCHANGED <<index_type, metadata, manifest, fsIndex, fsMetadata,
                   fsManifest, fed>>

create_index ==
    /\ CreateIndexEffect
    /\ UNCHANGED outsideStore

(* index.train(embeddings): the clustering refuses fewer points than
   clusters *)
FaissTrain(ix, embeddings) ==
    IF Len(embeddings) < ix.nlist
    THEN [error |-> "RuntimeError", index |-> ix]
    ELSE [error |-> "none", index |-> [ix EXCEPT !.is_trained = TRUE]]

(* mutant of Trained: the training step is skipped *)
TrainedNever(ix, embeddings) == [error |-> "none", index |-> ix]

(* the effect of train_index on an index that exists *)
Trained(ix, embeddings) ==
    IF ~ix.is_trained THEN FaissTrain(ix, embeddings)
    ELSE [error |-> "none", index |-> ix]

train_index(embeddings) ==
    /\ IF index = NoIndex
       THEN /\ lastOp' = Outcome("train_index", "VectorSearchError")
            /\ index' = index
       ELSE LET t == Trained(index, embeddings)
            IN  /\ index' = t.index
                /\ lastOp' = Outcome("train_index", t.error)
    /\ UNCHANGED <<index_type, metadata, manifest, fsIndex, fsMetadata,
                   fsManifest, fed>>
    /\ UNCHANGED outsideStore

(* what an add_vectors call was given and how it ended *)
AddOutcome(error, embeddings, metas) ==
    [op |-> "add_vectors", error |-> error,
     embeddings |-> Len(embeddings), metadata |-> Len(metas)]

(* the error add_vectors raises before it touches the index, or "none" *)
AddRejection(embeddings, metas) ==
    IF index = NoIndex THEN "VectorSearchError"
    ELSE IF Len(embeddings) # Len(metas) THEN "VectorSearchError"
    ELSE Trained(index, embeddings).error

(* self.metadata after `self.metadata[start_id + i] = meta` for the batch *)
StoredMetadata(md, start_id, metas) ==
    LET ids == {start_id + i - 1 : i \in 1..Len(metas)}
    IN  [id \in DOMAIN md \cup ids |->
            IF id \in ids THEN metas[id - start_id + 1] ELSE md[id]]

add_vectors(embeddings, metas) ==
    /\ index # NoIndex => ntotal(index) + Len(embeddings) <= MaxVectors
    /\ LET error == AddRejection(embeddings, metas)
       IN  IF error # "none"
           THEN /\ lastOp' = AddOutcome(error, embeddings, metas)
                /\ UNCHANGED <<index, metadata, fed>>
           ELSE LET trained == Trained(index, embeddings).index
                    start_id == ntotal(trained)
                IN  /\ index' = [trained EXCEPT !.vecs = @ \o embeddings]
                    /\ metadata' = StoredMetadata(metadata, start_id, metas)
                    /\ fed' = fed + Len(metas)
                    /\ lastOp' = AddOutcome("none", embeddings, metas)
    /\ UNCHANGED <<index_type, manifest, fsIndex, fsMetadata, fsManifest>>
    /\ UNCHANGED outsideStore

(* mutant of Hydrate: the placeholder chunk_id does not carry the id *)
HydrateUnnumbered(idx, similarity, md) ==
    LET meta == GetOr(md, idx, EmptyDict)
    IN  [chunk_id         |-> GetOr(meta, "chunk_id", <<"chunk_">>),
         content          |-> GetOr(meta, "content", ""),
         similarity_score |-> similarity,
         metadata         |-> meta,
         document_id      |-> Get(meta, "document_id"),
         source_file      |-> Get(meta, "source_file"),
         page_number      |-> Get(meta, "page_number"),
         article_number   |-> Get(meta, "article_number")]

(* the VectorSearchResult built for the hit idx: metadata = self.metadata.get(idx, {})
   and the fields read from it with .get *)
Hydrate(idx, similarity, md) ==
    LET meta == GetOr(md, idx, EmptyDict)
    IN  [chunk_id         |-> GetOr(meta, "chunk_id", <<"chunk_", idx>>),
         content          |-> GetOr(meta, "content", ""),
         similarity_score |-> similarity,
         metadata         |-> meta,
         document_id      |-> Get(meta, "document_id"),
         source_file      |-> Get(meta, "source_file"),
         page_number      |-> Get(meta, "page_number"),
         article_number   |-> Get(meta, "article_number")]

RECURSIVE Hits(_, _, _, _)
(* the loop over zip(indices[0], similarities): the slots from i on that are
   filled and reach the threshold, hydrated with the metadata md *)
Hits(slots, i, threshold, md) ==
    IF i > Len(slots) THEN <<>>
    ELSE LET max_distance == MaxOf({slots[j].dist : j \in 1..Len(slots)})
             similarity == Similarity(slots[i].dist, max_distance)
             idx == slots[i].idx
             rest == Hits(slots, i + 1, threshold, md)
         IN  IF idx = -1 THEN rest
             ELSE IF ~ScoreAtLeast(similarity, threshold) THEN rest
             ELSE <<Hydrate(idx, similarity, md)>> \o rest

(* mutant of NothingToSearch: the `self.index.ntotal == 0` test is missing *)
NothingToSearchIfAbsent(ix) == ix = NoIndex

(* if self.index is None or self.index.ntotal == 0 *)
NothingToSearch(ix) == ix = NoIndex \/ ntotal(ix) = 0

(* the possible outcomes of search(query, k, confidence_threshold) on the
   manager (ix, md): an error, or a result list *)
SearchOutcomes(ix, md, q, k, confidence_threshold) ==
    IF NothingToSearch(ix)
    THEN {[error |-> "VectorSearchError", results |-> <<>>]}
    ELSE {[error |-> "none",
           results |-> Hits(slots, 1,
                            OrDefault(confidence_threshold, ConfigConfidence), md)] :
             slots \in FaissSearch(ix, q, OrDefault(k, ConfigTopK))}

search(q, k, confidence_threshold) ==
    /\ \E out \in SearchOutcomes(index, metadata, q, k, confidence_threshold) :
          lastOp' = [op |-> "search", error |-> out.error, query |-> q, k |-> k,
                     confidence_threshold |-> confidence_threshold,
                     results |-> out.results]
    /\ UNCHANGED <<index_type, index, metadata, manifest, fsIndex, fsMetadata,
                   fsManifest, fed>>
    /\ UNCHANGED outsideStore

-----------------------------------------------------------------------------
(* Persistence *)

NoFile == [exists |-> FALSE]

FileOf(data) == [exists |-> TRUE, data |-> data]

(* a file whose content its reader rejects: faiss.read_index or json.load
   raises on it *)
Damaged == [exists |-> TRUE, damaged |-> TRUE]

Readable(file) == file.exists /\ "data" \in DOMAIN file

(* json.dump(self.metadata): JSON object keys are strings, so each integer id
   is written as str(id); the entries are dicts of strings and integers,
   which JSON writes and reads back as themselves *)
MetadataJson(md) ==
    [k \in {IntToStr(id) : id \in DOMAIN md} |-> md[StrToInt(k)]]

(* mutant of LoadedMetadata: the file's content is not read *)
LoadedMetadataIgnoringFile(file) == EmptyDict

(* mutant of LoadedMetadata: without the else branch the mapping held before
   the load stays when the file is absent *)
LoadedMetadataKeptWhenAbsent(file) ==
    IF file.exists
    THEN [id \in {StrToInt(k) : k \in DOMAIN file.data} |-> file.data[IntToStr(id)]]
    ELSE metadata

(* self.metadata after the metadata step of load_index:
   {int(k): v for k, v in json.load(f).items()}, or {} when the file is
   absent *)
LoadedMetadata(file) ==
    IF file.exists
    THEN [id \in {StrToInt(k) : k \in DOMAIN file.data} |-> file.data[IntToStr(id)]]
    ELSE EmptyDict

(* datetime.utcnow(): a naive datetime; the instant itself is left out *)
UtcNow == [tzinfo |-> "None"]

(* datetime.isoformat(), as a sequence of tokens: the date and time "T", then
   the offset of an aware datetime *)
IsoFormat(dt) == IF dt.tzinfo = "None" THEN <<"T">> ELSE <<"T", "+00:00">>

(* s.replace('Z', '+00:00') *)
ReplaceZ(s) == [i \in 1..Len(s) |-> IF s[i] = "Z" THEN "+00:00" ELSE s[i]]

(* datetime.fromisoformat(s): <<>> when s is no ISO timestamp (ValueError) *)
FromIsoFormat(s) ==
    IF s = <<"T">> THEN <<[tzinfo |-> "None"]>>
    ELSE IF s = <<"T", "+00:00">> THEN <<[tzinfo |-> "UTC"]>>
    ELSE <<>>

(* _get_document_summary: one entry per document_id met in the metadata
   values ('unknown' when a dict has none), counting its chunks; every chunk
   of a document names the same source_file *)
DocumentIdOf(meta) == GetOr(meta, "document_id", "unknown")

DocumentSummary(md) ==
    LET doc_ids == {DocumentIdOf(md[id]) : id \in DOMAIN md}
        of(d) == {id \in DOMAIN md : DocumentIdOf(md[id]) = d}
    IN  [d \in doc_ids |->
            [id       |-> d,
             filename |-> GetOr(md[CHOOSE id \in of(d) : TRUE], "source_file", "unknown"),
             chunks   |-> Cardinality(of(d))]]

(* the IndexManifest save_index builds *)
BuiltManifest(ix, md) ==
    [version       |-> "1.0.0",
     created_at    |-> UtcNow,
     total_chunks  |-> ntotal(ix),
     chunk_size    |-> ConfigChunkSize,
     chunk_overlap |-> ConfigChunkOverlap,
     documents     |-> DocumentSummary(md)]

(* IndexManifest.to_dict *)
to_dict(m) == [m EXCEPT !.created_at = IsoFormat(@) \o <<"Z">>]

(* IndexManifest.from_dict: <<manifest>>, or <<>> when created_at does not
   parse *)
from_dict(d) ==
    LET parsed == FromIsoFormat(ReplaceZ(d.created_at))
    IN  IF parsed = <<>> THEN <<>>
        ELSE <<[d EXCEPT !.created_at = parsed[1]]>>

PathOutcome(op, error, index_path, metadata_path, manifest_path) ==
    [op |-> op, error |-> error, index_path |-> index_path,
     metadata_path |-> metadata_path, manifest_path |-> manifest_path]

save_index(index_path, metadata_path, manifest_path) ==
    /\ IF index = NoIndex
       THEN /\ lastOp' = PathOutcome("save_index", "VectorSearchError",
                                     index_path, metadata_path, manifest_path)
            /\ UNCHANGED <<manifest, fsIndex, fsMetadata, fsManifest>>
       ELSE LET built == BuiltManifest(index, metadata)
            IN  /\ fsIndex' = [fsIndex EXCEPT ![index_path] = FileOf(index)]
                /\ fsMetadata' = [fsMetadata EXCEPT
                                    ![metadata_path] = FileOf(MetadataJson(metadata))]
                /\ fsManifest' = [fsManifest EXCEPT
                                    ![manifest_path] = FileOf(to_dict(built))]
                /\ manifest' = built
                /\ lastOp' = PathOutcome("save_index", "none",
                                         index_path, metadata_path, manifest_path)
    /\ UNCHANGED <<index_type, index, metadata, fed>>
    /\ UNCHANGED outsideStore

(* what load_index does to the manager; manifest_path = "" stands for the
   default None *)
LoadIndexEffect(index_path, metadata_path, manifest_path) ==
    /\ IF ~fsIndex[index_path].exists
       THEN /\ lastOp' = Outcome("load_index", "VectorSearchError")
            /\ UNCHANGED <<index, metadata, manifest>>
       ELSE IF ~Readable(fsIndex[index_path])
       THEN /\ lastOp' = Outcome("load_index", "VectorSearchError")
            /\ UNCHANGED <<index, metadata, manifest>>
       ELSE /\ index' = fsIndex[index_path].data
            /\ IF fsMetadata[metadata_path].exists /\ ~Readable(fsMetadata[metadata_path])
               THEN /\ lastOp' = Outcome("load_index", "VectorSearchError")
                    /\ UNCHANGED <<metadata, manifest>>
               ELSE /\ metadata' = LoadedMetadata(fsMetadata[metadata_path])
                    /\ IF manifest_path # "" /\ fsManifest[manifest_path].exists
                       THEN IF ~Readable(fsManifest[manifest_path])
                            THEN /\ manifest' = manifest
                                 /\ lastOp' = Outcome("load_index", "VectorSearchError")
                            ELSE LET loaded == from_dict(fsManifest[manifest_path].data)
                                 IN  IF loaded = <<>>
                                     THEN /\ manifest' = manifest
                                          /\ lastOp' = Outcome("load_index", "VectorSearchError")
                                     ELSE /\ manifest' = loaded[1]
                                          /\ lastOp' = Outcome("load_index", "none")
                       ELSE /\ manifest' = manifest
                            /\ lastOp' = Outcome("load_index", "none")
    /\ UNCHANGED <<index_type, fsIndex, fsMetadata, fsManifest, fed>>

load_index(index_path, metadata_path, manifest_path) ==
    /\ LoadIndexEffect(index_path, metadata_path, manifest_path)
    /\ UNCHANGED outsideStore

(* the disk outside the manager: one of the three files saved under path is
   overwritten with content its reader rejects *)
DamageFile(kind, path) ==
    /\ \/ /\ kind = "index" /\ Readable(fsIndex[path])
          /\ fsIndex' = [fsIndex EXCEPT ![path] = Damaged]
          /\ UNCHANGED <<fsMetadata, fsManifest>>
       \/ /\ kind = "metadata" /\ Readable(fsMetadata[path])
          /\ fsMetadata' = [fsMetadata EXCEPT ![path] = Damaged]
          /\ UNCHANGED <<fsIndex, fsManifest>>
       \/ /\ kind = "manifest" /\ Readable(fsManifest[path])
          /\ fsManifest' = [fsManifest EXCEPT ![path] = Damaged]
          /\ UNCHANGED <<fsIndex, fsMetadata>>
    /\ lastOp' = [op |-> "damage", error |-> "none"]
    /\ UNCHANGED <<index_type, index, metadata, manifest, fed>>
    /\ UNCHANGED outsideStore

-----------------------------------------------------------------------------
(* EmbeddingManager *)

(* longest list of texts handed to generate_embeddings *)
MaxTexts == 2

Texts == {"t1", "t2"}

(* the keys callers cache under *)
TextHashes == {"h1", "h2"}

(* the values np.random.random draws, one coordinate per vector *)
RandomValues == {0, 1}

EmbedConstructed ==
    /\ cache = EmptyDict
    /\ embedOut = [op |-> "__init__"]

(* np.random.random((len(texts), dimension)): any array of that shape *)
RandomEmbeddings(texts) == [1..Len(texts) -> RandomValues]

(* the placeholder implementation: fresh random vectors, self.cache neither
   read nor written *)
generate_embeddings(texts) ==
    /\ \E embeddings \in RandomEmbeddings(texts) :
          embedOut' = [op |-> "generate_embeddings", texts |-> texts,
                       embeddings |-> embeddings]
    /\ UNCHANGED cache
    /\ UNCHANGED outsideEmbed

get_cached_embedding(text_hash) ==
    /\ embedOut' = [op |-> "get_cached_embedding", text_hash |-> text_hash,
                    embedding |-> Get(cache, text_hash)]
    /\ UNCHANGED cache
    /\ UNCHANGED outsideEmbed

cache_embedding(text_hash, embedding) ==
    /\ cache' = [h \in DOMAIN cache \cup {text_hash} |->
                    IF h = text_hash THEN embedding ELSE cache[h]]
    /\ embedOut' = [op |-> "cache_embedding", text_hash |-> text_hash]
    /\ UNCHANGED outsideEmbed

-----------------------------------------------------------------------------
(* ChatBot, Retrieval and RuleBasedClassifier *)

(* most nodes the retriever hands back in the model *)
MaxNodes == 2

(* a Python str is the sequence of its pieces, "" the empty sequence; the
   Vietnamese literals are written without their diacritics *)
Str(s) == [type |-> "str", s |-> s]

(* what Bedrock.complete returns: an object carrying the completion text *)
CompletionResponse(t) == [type |-> "CompletionResponse", s |-> t]

(* the completion texts of the model: an empty one and an answer *)
CompletionTexts == {<< >>, <<"Dieu 5: ...">>}

(* what the LLM call raises when it fails, and what the retriever raises *)
LlmError == "llm.complete raised"

RetrieverError == "retriever.retrieve raised"

(* truth value of a Python object: a str is false when empty, an object
   without __bool__ and __len__ is always true *)
TruthyAsText(v) == v.s # << >>

Truthy(v) == v.type # "str" \/ v.s # << >>

(* "{v}" inside an f-string: str(v) *)
Format(v) == v.s

NoHitsText == "Khong tim thay thong tin lien quan."

NoHitsResponse == Str(<<"[Response]: ", NoHitsText>>)

IndexMissingResponse ==
    Str(<<"[Error]: ", "Index chua duoc tao. Vui long luu du lieu va tao index truoc.">>)

NoRetrieval == [type |-> "None"]

RetrievalOn(ix) == [type |-> "Retrieval", index |-> ix]

(* the questions of the model, as the words VnCoreNLP segments them into, and
   the language langdetect reports for each *)
Questions ==
    { <<"Xe", "la", "gi">>, <<"xem", "bien", "bao">>, <<"troi", "la", "gi">>,
      <<"what", "is", "car">> }

detect(q) == IF q[1] = "what" THEN "en" ELSE "vi"

lower(w) == IF w = "Xe" THEN "xe" ELSE w

stop_words == {"la"}

keywords == {"xe"}

(* keyword in processed_query: a substring test, so a keyword is found inside
   a longer word too *)
SubstringOf(k, w) == w = k \/ (k = "xe" /\ w = "xem")

NotVietnamese == <<"toi chi hieu tieng viet">>

remove_stopwords(q) == SelectSeq(q, LAMBDA w : w \notin stop_words)

preprocess(q) == remove_stopwords([i \in 1..Len(q) |-> lower(q[i])])

preprocessor(q) == IF detect(q) # "vi" THEN NotVietnamese ELSE preprocess(q)

classify(q) ==
    LET processed_query == preprocessor(q) IN
    IF processed_query = NotVietnamese THEN -1
    ELSE IF \E k \in keywords : \E i \in 1..Len(processed_query) :
                SubstringOf(k, processed_query[i])
         THEN 1
         ELSE 0

NotCalled == "not called"

Raised == "raised"

Returned == "returned"

(* how one Retrieval.query call ends: what was raised, what was returned, and
   how the calls it made on the way ended (nodes: how many the retriever
   returned) *)
QueryOutcome(raised, value, retrieve, nodes, llm) ==
    [raised |-> raised, value |-> value, retrieve |-> retrieve, nodes |-> nodes,
     llm |-> llm]

custom_query ==
    {QueryOutcome(RetrieverError, Str(<< >>), Raised, 0, NotCalled)}
    \cup {QueryOutcome("none", NoHitsResponse, Returned, 0, NotCalled)}
    \cup {QueryOutcome(LlmError, Str(<< >>), Returned, n, Raised) : n \in 1..MaxNodes}
    \cup {QueryOutcome("none", CompletionResponse(t), Returned, n, Returned) :
            n \in 1..MaxNodes, t \in CompletionTexts}

query ==
    IF retrieval.index = "None"
    THEN {QueryOutcome("none", IndexMissingResponse, NotCalled, 0, NotCalled)}
    ELSE custom_query

(* no Retrieval.query call was made *)
NoQuery == QueryOutcome("none", Str(<< >>), NotCalled, 0, NotCalled)

(* the record of one process_query call: the classifier's verdict (0 when it
   was not asked), what became of the retrieval engine, and the reply; returned
   is the empty sequence when the call raised *)
BotOutcome(q, classifier, classification, engine, r, returned) ==
    [op |-> "process_query", user_question |-> q, classifier |-> classifier,
     classification |-> classification, engine |-> engine,
     retrieve |-> r.retrieve, nodes |-> r.nodes, llm |-> r.llm,
     raised |-> r.raised, returned |-> returned]

(* mutant of Remembered: the buffer keeps the latest answer only *)
RememberedLatestOnly(buffer, q, value) == [k \in {q} |-> value]

(* self.chat_memory_buffer[user_question] = result *)
Remembered(buffer, q, value) ==
    [k \in DOMAIN buffer \cup {q} |-> IF k = q THEN value ELSE buffer[k]]

BotConstructed ==
    /\ chat_memory_buffer = EmptyDict
    /\ retrieval = RetrievalOn("VectorStoreIndex")
    /\ botOut = [op |-> "__init__"]

process_query(user_question) ==
    /\ IF user_question \in DOMAIN chat_memory_buffer
       THEN /\ botOut' = BotOutcome(user_question, NotCalled, 0, NotCalled, NoQuery,
                            <<"[Cache Hit]: ">> \o Format(chat_memory_buffer[user_question]))
            /\ UNCHANGED chat_memory_buffer
       ELSE LET classification_result == classify(user_question) IN
            IF classification_result = -1
            THEN /\ botOut' = BotOutcome(user_question, Returned, classification_result,
                                 NotCalled, NoQuery,
                                 <<"Toi chi hieu tieng Viet. Ban vui long nhap lai nha.">>)
                 /\ UNCHANGED chat_memory_buffer
            ELSE IF classification_result = 1
            THEN IF retrieval = NoRetrieval
                 THEN /\ botOut' = BotOutcome(user_question, Returned, classification_result,
                                      "missing", NoQuery,
                                      <<"[Error]: ", "He thong truy xuat chua duoc khoi tao dung cach.">>)
                      /\ UNCHANGED chat_memory_buffer
                 ELSE \E r \in query :
                        IF r.raised # "none"
                        THEN /\ botOut' = BotOutcome(user_question, Returned,
                                              classification_result, Raised, r, << >>)
                             /\ UNCHANGED chat_memory_buffer
                        ELSE IF Truthy(r.value)
                        THEN /\ chat_memory_buffer' =
                                    Remembered(chat_memory_buffer, user_question, r.value)
                             /\ botOut' = BotOutcome(user_question, Returned,
                                              classification_result, Returned, r,
                                              <<" ">> \o Format(r.value))
                        ELSE /\ botOut' = BotOutcome(user_question, Returned,
                                              classification_result, Returned, r,
                                              <<" ", NoHitsText>>)
                             /\ UNCHANGED chat_memory_buffer
            ELSE /\ botOut' = BotOutcome(user_question, Returned, classification_result,
                                 NotCalled, NoQuery,
                                 <<" Cau hoi khong lien quan den giao thong duong bo. Ban vui long hoi cau khac nha">>)
                 /\ UNCHANGED chat_memory_buffer
    /\ UNCHANGED retrieval
    /\ UNCHANGED outsideBot

-----------------------------------------------------------------------------
(* create_retry_decorator *)

(* RETRY_CONFIG['max_attempts'] *)
ConfigMaxAttempts == 3

(* the default retryable_exceptions *)
RetryableExceptions == {"ClientError", "BotoCoreError", "BedrockError", "VectorSearchError"}

(* the functions the decorator is applied to in the model: two calls on the
   manager, a call to the Bedrock backend, and an input validation *)
WrappedCalls == {"create_index", "load_index", "bedrock", "validate"}

(* what an attempt of a call that does not reach the manager may raise *)
Raises(f) ==
    IF f = "bedrock" THEN {"none", "ClientError", "BotoCoreError", "BedrockError"}
    ELSE {"none", "ValidationError"}

(* mutant of StopAfterAttempt: one attempt more is allowed *)
StopAfterAttemptOneLate(n) == attempt_number >= n + 1

(* stop_after_attempt(n) *)
StopAfterAttempt(n) == attempt_number >= n

(* retry_if_exception_type(types) *)
RetryIfExceptionType(e, types) == e \in types

RetryConstructed ==
    /\ wrapped = "none"
    /\ max_attempts = ConfigMaxAttempts
    /\ retry_pc = "idle"
    /\ attempt_number = 0
    /\ invocations = 0
    /\ last_exception = "none"
    /\ retry_raised = "none"

(* the decorated function is called *)
RetryCall(f, n) ==
    /\ retry_pc \in {"idle", "returned", "raised"}
    /\ wrapped' = f
    /\ max_attempts' = n
    /\ retry_pc' = "attempting"
    /\ attempt_number' = 1
    /\ invocations' = 0
    /\ last_exception' = "none"
    /\ retry_raised' = "none"
    /\ UNCHANGED storeVars
    /\ UNCHANGED outsideRetry

(* what tenacity does with the outcome e of an attempt: return, re-raise an
   exception that is not retried, give up with RetryError, or sleep *)
AfterAttempt(e) ==
    /\ invocations' = invocations + 1
    /\ last_exception' = e
    /\ IF e = "none"
       THEN retry_pc' = "returned" /\ retry_raised' = "none"
       ELSE IF ~RetryIfExceptionType(e, RetryableExceptions)
       THEN retry_pc' = "raised" /\ retry_raised' = e
       ELSE IF StopAfterAttempt(max_attempts)
       THEN retry_pc' = "raised" /\ retry_raised' = "RetryError"
       ELSE retry_pc' = "sleeping" /\ retry_raised' = "none"
    /\ UNCHANGED <<wrapped, max_attempts, attempt_number>>

(* one attempt: the wrapped function is invoked *)
RetryAttempt ==
    /\ retry_pc = "attempting"
    /\ \/ /\ wrapped = "create_index"
          /\ CreateIndexEffect
          /\ AfterAttempt(lastOp'.error)
       \/ /\ wrapped = "load_index"
          /\ \E d \in SavePaths : LoadIndexEffect(d, d, d)
          /\ AfterAttempt(lastOp'.error)
       \/ /\ wrapped \in {"bedrock", "validate"}
          /\ UNCHANGED storeVars
          /\ \E e \in Raises(wrapped) : AfterAttempt(e)
    /\ UNCHANGED outsideRetry

(* the wait between two attempts *)
RetrySleep ==
    /\ retry_pc = "sleeping"
    /\ attempt_number' = attempt_number + 1
    /\ retry_pc' = "attempting"
    /\ UNCHANGED <<wrapped, max_attempts, invocations, last_exception, retry_raised>>
    /\ UNCHANGED storeVars
    /\ UNCHANGED outsideRetry

-----------------------------------------------------------------------------
(* Two threads sharing the manager of get_vector_store_manager: one inside
   add_vectors, one inside search.  Neither method takes a lock, so a thread
   may be preempted between any two of its accesses to self.index and
   self.metadata.  The statements between two such points are one step. *)

NothingFound == [slots |-> <<>>, query |-> 0, k |-> 0, confidence_threshold |-> 0]

ThreadsIdle ==
    /\ add_pc = "idle"
    /\ add_start_id = 0
    /\ add_metadata = <<>>
    /\ add_i = 0
    /\ search_pc = "idle"
    /\ search_found = NothingFound

(* add_vectors up to and including self.index.add(embeddings_f32) *)
AddBegin(embeddings, metas) ==
    /\ add_pc = "idle"
    /\ index # NoIndex => ntotal(index) + Len(embeddings) <= MaxVectors
    /\ LET error == AddRejection(embeddings, metas)
       IN  IF error # "none"
           THEN /\ lastOp' = AddOutcome(error, embeddings, metas)
                /\ UNCHANGED <<index, fed, add_pc, add_start_id, add_metadata, add_i>>
           ELSE LET trained == Trained(index, embeddings).index
                IN  /\ add_start_id' = ntotal(trained)
                    /\ index' = [trained EXCEPT !.vecs = @ \o embeddings]
                    /\ fed' = fed + Len(metas)
                    /\ add_metadata' = metas
                    /\ add_i' = 0
                    /\ add_pc' = "storing"
                    /\ UNCHANGED lastOp
    /\ UNCHANGED <<index_type, metadata, manifest, fsIndex, fsMetadata, fsManifest>>
    /\ UNCHANGED <<search_pc, search_found>>
    /\ UNCHANGED outsideThreads

(* one round of the loop: self.metadata[add_start_id + i] = meta *)
AddStore ==
    /\ add_pc = "storing"
    /\ add_i < Len(add_metadata)
    /\ metadata' = StoredMetadata(metadata, add_start_id + add_i, <<add_metadata[add_i + 1]>>)
    /\ add_i' = add_i + 1
    /\ UNCHANGED <<index_type, index, manifest, fsIndex, fsMetadata, fsManifest,
                   fed, lastOp>>
    /\ UNCHANGED <<add_pc, add_start_id, add_metadata, search_pc, search_found>>
    /\ UNCHANGED outsideThreads

(* the loop is exhausted and add_vectors returns *)
AddReturn ==
    /\ add_pc = "storing"
    /\ add_i = Len(add_metadata)
    /\ lastOp' = [op |-> "add_vectors", error |-> "none",
                  embeddings |-> Len(add_metadata), metadata |-> Len(add_metadata)]
    /\ add_pc' = "idle"
    /\ add_start_id' = 0
    /\ add_metadata' = <<>>
    /\ add_i' = 0
    /\ UNCHANGED <<index_type, index, metadata, manifest, fsIndex, fsMetadata,
                   fsManifest, fed>>
    /\ UNCHANGED <<search_pc, search_found>>
    /\ UNCHANGED outsideThreads

(* search up to and including self.index.search(query_embedding, k) *)
SearchBegin(q, k, confidence_threshold) ==
    /\ search_pc = "idle"
    /\ IF NothingToSearch(index)
       THEN /\ lastOp' = [op |-> "search", error |-> "VectorSearchError", query |-> q,
                          k |-> k, confidence_threshold |-> confidence_threshold,
                          results |-> <<>>]
            /\ UNCHANGED <<search_pc, search_found>>
       ELSE /\ \E slots \in FaissSearch(index, q, OrDefault(k, ConfigTopK)) :
                  search_found' = [slots |-> slots, query |-> q, k |-> k,
                                   confidence_threshold |-> confidence_threshold]
            /\ search_pc' = "searched"
            /\ UNCHANGED lastOp
    /\ UNCHANGED <<index_type, index, metadata, manifest, fsIndex, fsMetadata,
                   fsManifest, fed>>
    /\ UNCHANGED <<add_pc, add_start_id, add_metadata, add_i>>
    /\ UNCHANGED outsideThreads

(* the loop over the hits, reading self.metadata as it is by then, and the
   return *)
SearchReturn ==
    /\ search_pc = "searched"
    /\ lastOp' = [op |-> "search", error |-> "none", query |-> search_found.query,
                  k |-> search_found.k,
                  confidence_threshold |-> search_found.confidence_threshold,
                  results |-> Hits(search_found.slots, 1,
                                   OrDefault(search_found.confidence_threshold,
                                             ConfigConfidence),
                                   metadata)]
    /\ search_pc' = "idle"
    /\ search_found' = NothingFound
    /\ UNCHANGED <<index_type, index, metadata, manifest, fsIndex, fsMetadata,
                   fsManifest, fed>>
    /\ UNCHANGED <<add_pc, add_start_id, add_metadata, add_i>>
    /\ UNCHANGED outsideThreads

-----------------------------------------------------------------------------
(* Specifications *)

(* a batch for add_vectors and train_index: the next chunks of the job *)
Batches == {<<n, m>> \in (0..MaxBatch) \X (0..MaxBatch) : fed + m <= MaxChunks /\ fed + n <= MaxChunks}

AddStep == \E b \in Batches : add_vectors(NextEmbeddings(b[1]), NextMetas(b[2]))

TrainStep == \E n \in 0..MaxBatch : train_index(NextEmbeddings(n))

SaveStep == \E d \in SavePaths : save_index(d, d, d)

LoadStep ==
    \E ip \in Paths, mp \in Paths, manp \in Paths \cup {""} : load_index(ip, mp, manp)

SearchStep ==
    \E q \in Coords, k \in 0..MaxK, t \in Thresholds : search(q, k, t)

InitChunk == ChunkIdle /\ StoreConstructed /\ EmbedConstructed /\ BotConstructed /\ RetryConstructed /\ ThreadsIdle /\ index_type = FlatType

NextChunk ==
    \/ ChunkCall
    \/ ChunkSeal
    \/ ChunkAccumulate
    \/ ChunkFlush

ChunkSpec == InitChunk /\ [][NextChunk]_vars

(* a call that has started keeps running: the interpreter does not stop in the
   middle of the loop *)
ChunkFairSpec == ChunkSpec /\ WF_vars(ChunkStep)

Init ==
    ChunkIdle /\ StoreConstructed /\ EmbedConstructed /\ BotConstructed
    /\ RetryConstructed /\ ThreadsIdle
    /\ index_type \in ConfigIndexTypes

NextStore ==
    \/ create_index
    \/ TrainStep
    \/ AddStep
    \/ SaveStep
    \/ LoadStep

StoreSpec == Init /\ [][NextStore]_vars

NextSearch ==
    \/ create_index
    \/ AddStep
    \/ SearchStep

SearchSpec == Init /\ [][NextSearch]_vars

(* the serving side: the manager loads what the indexing job saved and answers
   queries; a flat index, as the FAISS_INDEX_TYPE of a small deployment *)
InitServe == ChunkIdle /\ StoreConstructed /\ EmbedConstructed /\ BotConstructed /\ RetryConstructed /\ ThreadsIdle /\ index_type = FlatType

ProbeQueries == {0, 2}

ProbeStep == \E q \in ProbeQueries, k \in {0, MaxK}, t \in {-5, 3} : search(q, k, t)

NextServe ==
    \/ create_index
    \/ AddStep
    \/ SaveStep
    \/ LoadStep
    \/ ProbeStep

ServeSpec == InitServe /\ [][NextServe]_vars

(* loading from a disk on which files get damaged *)
DamageStep == \E kind \in {"index", "metadata", "manifest"}, d \in SavePaths : DamageFile(kind, d)

NextRestore ==
    \/ create_index
    \/ AddStep
    \/ SaveStep
    \/ LoadStep
    \/ DamageStep

RestoreSpec == InitServe /\ [][NextRestore]_vars

GenerateStep ==
    \E n \in 1..MaxTexts : \E texts \in [1..n -> Texts] : generate_embeddings(texts)

GetCachedStep == \E h \in TextHashes : get_cached_embedding(h)

CacheStep == \E h \in TextHashes, e \in RandomValues : cache_embedding(h, e)

NextEmbed ==
    \/ GenerateStep
    \/ GetCachedStep
    \/ CacheStep

EmbedSpec == InitChunk /\ [][NextEmbed]_vars

(* the chatbot as the guards of process_query and Retrieval.query see it:
   with its retrieval engine, without one, and with an engine whose index is
   missing *)
InitBot ==
    /\ ChunkIdle /\ StoreConstructed /\ EmbedConstructed /\ RetryConstructed
    /\ ThreadsIdle
    /\ index_type = FlatType
    /\ chat_memory_buffer = EmptyDict
    /\ retrieval \in {NoRetrieval, RetrievalOn("None"), RetrievalOn("VectorStoreIndex")}
    /\ botOut = [op |-> "__init__"]

AskStep == \E q \in Questions : process_query(q)

NextBot == AskStep

BotSpec == InitBot /\ [][NextBot]_vars

(* calls through the decorator, on a manager whose disk may hold a saved
   index *)
RetryCallStep == \E f \in WrappedCalls, n \in 0..ConfigMaxAttempts : RetryCall(f, n)

NextRetry ==
    \/ RetryCallStep
    \/ RetryAttempt
    \/ RetrySleep
    \/ SaveStep
    \/ DamageStep

RetrySpec == Init /\ [][NextRetry]_vars

(* the manager is set up before the two threads start *)
ThreadsSetup == ThreadsIdle /\ create_index

AddBeginStep == \E b \in Batches : AddBegin(NextEmbeddings(b[1]), NextMetas(b[2]))

SearchBeginStep ==
    \E q \in ProbeQueries, k \in {0, MaxK}, t \in {-5, 3} : SearchBegin(q, k, t)

NextThreads ==
    \/ ThreadsSetup
    \/ AddBeginStep
    \/ AddStore
    \/ AddReturn
    \/ SearchBeginStep
    \/ SearchReturn

ThreadsSpec == InitServe /\ [][NextThreads]_vars

Next ==
    \/ NextChunk
    \/ NextStore
    \/ SearchStep
    \/ NextEmbed
    \/ NextBot
    \/ DamageStep
    \/ RetryCallStep
    \/ RetryAttempt
    \/ RetrySleep
    \/ NextThreads

Spec == Init /\ [][Next]_vars


-----------------------------------------------------------------------------
(* Reading the returned chunks as runs of consecutive sentences *)

RECURSIVE SumFirst(_, _)
SumFirst(ls, j) == IF j = 0 THEN 0 ELSE ls[j] + SumFirst(ls, j - 1)

(* the ways of cutting the sentence list into one non-empty run per chunk *)
Layouts ==
    {ls \in [1..Len(chunks) -> 1..Len(sentences)] :
        SumFirst(ls, Len(chunks)) = Len(sentences)}

RunOf(ls, j) ==
    SubSeq(sentences, SumFirst(ls, j - 1) + 1, SumFirst(ls, j))

IsSuffix(p, s) ==
    Len(p) <= Len(s) /\ SubSeq(s, Len(s) - Len(p) + 1, Len(s)) = p

(* content = seed \o body, where seed is empty or a tail of the previous
   chunk followed by the joining space *)
IsSeedThenBody(content, previous, body) ==
    /\ IsSuffix(body, content)
    /\ LET seed == SubSeq(content, 1, Len(content) - Len(body))
       IN  \/ seed = <<>>
           \/ /\ seed[Len(seed)] = " "
              /\ IsSuffix(SubSeq(seed, 1, Len(seed) - 1), previous)

(* layout ls accounts for the returned chunks: chunk j is its run of
   sentences, preceded from the second chunk on by an overlap seed *)
Accounts(ls) ==
    \A j \in 1..Len(chunks) :
        IF j = 1
        THEN chunks[1].content = JoinWithSpace(RunOf(ls, 1))
        ELSE IsSeedThenBody(chunks[j].content, chunks[j-1].content,
                            JoinWithSpace(RunOf(ls, j)))

\* C5: for chunk_size > 0 every returned chunk has at most chunk_size
\* characters, unless it holds a single sentence that alone is longer than
\* chunk_size.
C5_ChunksWithinSize ==
    (cpc = "done" /\ chunk_size > 0) =>
        \E ls \in Layouts :
            /\ Accounts(ls)
            /\ \A j \in 1..Len(chunks) :
                  \/ Len(chunks[j].content) <= chunk_size
                  \/ ls[j] = 1 /\ Len(RunOf(ls, j)[1]) > chunk_size

C7_SeedAsRequested ==
    cpc = "done" =>
        \E ls \in Layouts :
            \A j \in 1..Len(chunks) :
                chunks[j].content =
                    IF j = 1 \/ overlap = 0
                    THEN JoinWithSpace(RunOf(ls, j))
                    ELSE Strip(LastChars(chunks[j-1].content, overlap)
                               \o <<" ">> \o JoinWithSpace(RunOf(ls, j)))

\* C8: chunk_text terminates for every text, chunk_size >= 0 and overlap >= 0
\* (chunk_size = 0 and overlap >= chunk_size included), and it returns no more
\* chunks than the text has sentences.
C8_Terminates ==
    /\ [](cpc # "idle" => <>(cpc = "done"))
    /\ [](cpc = "done" => Len(chunks) <= Len(sentences))

C8_Witness ==
    /\ cpc = "done"
    /\ chunk_size > 0
    /\ overlap >= chunk_size
    /\ Len(sentences) = 3
    /\ Len(chunks) = 3

-----------------------------------------------------------------------------
(* The vector store *)

AddSucceeded == lastOp.op = "add_vectors" /\ lastOp.error = "none"

SearchReturned == lastOp.op = "search" /\ lastOp.error = "none"

\* C1: whenever an add_vectors call has returned successfully, the index's
\* vector count equals the number of entries of the metadata mapping.
C1_CountEqualsMetadata ==
    AddSucceeded => ntotal(index) = Cardinality(DOMAIN metadata)

\* C2: on a non-empty index, for every query, every k >= 0 and every
\* confidence_threshold the caller passes, search returns at most k results,
\* each scoring at least the threshold passed, in non-increasing score order.
C2_SearchBounded ==
    SearchReturned =>
        LET results == lastOp.results
        IN  /\ Len(results) <= lastOp.k
            /\ \A i \in 1..Len(results) :
                  ScoreAtLeast(results[i].similarity_score,
                               lastOp.confidence_threshold)
            /\ \A i, j \in 1..Len(results) :
                  i < j => ScoreGE(results[i].similarity_score,
                                   results[j].similarity_score)

(* the ids of the vectors nearest to q, and whether the distances of the
   stored vectors to q are pairwise distinct *)
Nearest(ix, q) ==
    {id \in 0..(ntotal(ix) - 1) :
        \A other \in 0..(ntotal(ix) - 1) :
            Distance(ix.vecs[id + 1], q) <= Distance(ix.vecs[other + 1], q)}

DistinctDistances(ix, q) ==
    \A a, b \in 0..(ntotal(ix) - 1) :
        a # b => Distance(ix.vecs[a + 1], q) # Distance(ix.vecs[b + 1], q)

\* C3: on an exact (flat) index of n >= k >= 1 vectors whose distances to the
\* query are pairwise distinct, search(query, k, confidence_threshold = 0.0)
\* returns exactly k results, the nearest vector's chunk first.
C3_ExactlyKNearestFirst ==
    ( /\ SearchReturned
      /\ index.kind = "Flat"
      /\ lastOp.confidence_threshold = 0
      /\ lastOp.k >= 1
      /\ ntotal(index) >= lastOp.k
      /\ DistinctDistances(index, lastOp.query) ) =>
        /\ Len(lastOp.results) = lastOp.k
        /\ \E id \in Nearest(index, lastOp.query) :
              lastOp.results[1].chunk_id = metadata[id].chunk_id

C9_MismatchIsValidationError ==
    (lastOp.op = "add_vectors" /\ index # NoIndex /\ lastOp.embeddings # lastOp.metadata) =>
        lastOp.error = "ValidationError"

\* C10: a successful add_vectors gives the i-th vector of the batch the id
\* (vector count before the call) + i, and it neither overwrites nor removes
\* the metadata entry stored for any earlier vector, whatever calls came
\* before it.
C10_IdsNeverReused ==
    [][ (lastOp'.op = "add_vectors" /\ lastOp'.error = "none") =>
            LET start_id == ntotal(index)
            IN  /\ \A i \in 1..lastOp'.embeddings :
                      /\ index'.vecs[start_id + i] = EmbedOf(fed + i)
                      /\ metadata'[start_id + i - 1] = MetaOf(fed + i)
                /\ \A id \in DOMAIN metadata :
                      id \in DOMAIN metadata' /\ metadata'[id] = metadata[id]
      ]_vars

\* C11: search on a manager whose index is absent or holds no vector fails
\* with VectorSearchError; it never returns a list, empty or not.
C11_SearchOnEmptyFails ==
    (lastOp.op = "search" /\ (index = NoIndex \/ ntotal(index) = 0)) =>
        lastOp.error = "VectorSearchError"

C11_Witness ==
    /\ lastOp.op = "search"
    /\ lastOp.error = "VectorSearchError"
    /\ index # NoIndex
    /\ ntotal(index) = 0
    /\ DOMAIN metadata # {}

(* what search has to return for a hit that has no metadata entry *)
Placeholder(idx, similarity) ==
    [chunk_id         |-> <<"chunk_", idx>>,
     content          |-> "",
     similarity_score |-> similarity,
     metadata         |-> EmptyDict,
     document_id      |-> <<>>,
     source_file      |-> <<>>,
     page_number      |-> <<>>,
     article_number   |-> <<>>]

(* the slots of one index.search answer that search keeps: filled, and scoring
   at least the threshold in force; each with its score *)
KeptSlots(slots, threshold) ==
    LET max_distance == MaxOf({slots[j].dist : j \in 1..Len(slots)})
        scored == [j \in 1..Len(slots) |->
                     [idx |-> slots[j].idx,
                      score |-> Similarity(slots[j].dist, max_distance)]]
        keeps(s) == s.idx # -1 /\ ScoreAtLeast(s.score, threshold)
    IN  SelectSeq(scored, keeps)

\* C12: a search hit whose vector id has no entry in the metadata mapping does
\* not make search raise; it is returned as a placeholder: chunk_id
\* 'chunk_<id>', empty content, empty metadata, and no document_id,
\* source_file, page_number or article_number.
C12_MissingMetadataIsPlaceholder ==
    (lastOp.op = "search" /\ ~NothingToSearch(index)) =>
        /\ lastOp.error = "none"
        /\ \E slots \in FaissSearch(index, lastOp.query, OrDefault(lastOp.k, ConfigTopK)) :
              LET kept == KeptSlots(slots, OrDefault(lastOp.confidence_threshold,
                                                    ConfigConfidence))
              IN  /\ Len(lastOp.results) = Len(kept)
                  /\ \A j \in 1..Len(kept) :
                        kept[j].idx \notin DOMAIN metadata =>
                            lastOp.results[j] = Placeholder(kept[j].idx, kept[j].score)

C12_Witness ==
    /\ SearchReturned
    /\ \E i, j \in 1..Len(lastOp.results) :
          /\ lastOp.results[i].metadata = EmptyDict
          /\ lastOp.results[i].chunk_id[1] = "chunk_"
          /\ lastOp.results[j].metadata # EmptyDict

RECURSIVE SumOfChunks(_, _)
(* the sum of the 'chunks' counts of the entries ids of a documents list *)
SumOfChunks(documents, ids) ==
    IF ids = {} THEN 0
    ELSE LET d == CHOOSE d \in ids : TRUE
         IN  documents[d].chunks + SumOfChunks(documents, ids \ {d})

\* C13: every manifest save_index writes has total_chunks equal to the sum of
\* the per-document chunk counts of its documents list, and equal to the
\* index's vector count at the time of the save.
C13_ManifestCountsAgree ==
    (lastOp.op = "save_index" /\ lastOp.error = "none") =>
        LET written == fsManifest[lastOp.manifest_path].data
        IN  /\ written.total_chunks = ntotal(index)
            /\ written.total_chunks
                  = SumOfChunks(written.documents, DOMAIN written.documents)

\* C14: load_index fails with a CorruptionError when the index file is
\* missing.
C14_MissingIndexIsCorruptionError ==
    [][ \A ip \in Paths, mp \in Paths, manp \in Paths \cup {""} :
            (load_index(ip, mp, manp) /\ ~fsIndex[ip].exists) =>
                lastOp'.error = "CorruptionError" ]_vars

\* C16: create_index fails with a ConfigurationError for every configured
\* index type that is neither 'Flat' nor an inverted-file type with a 'Flat'
\* quantizer, and the failed call leaves the manager's index as it was.
C16_UnsupportedTypeIsConfigurationError ==
    [][ (lastOp'.op = "create_index" /\ index_type \notin {FlatType, IvfFlatType}) =>
            /\ lastOp'.error = "ConfigurationError"
            /\ index' = index ]_vars

\* C15: load_index with the index file present and the metadata file absent
\* succeeds, installs the loaded index and leaves an empty metadata mapping
\* (whatever was held before is discarded); a search on the loaded, non-empty
\* index then returns placeholder hits instead of failing.
C15_AbsentMetadataDegrades ==
    /\ [][ \A ip \in Paths, mp \in Paths, manp \in Paths \cup {""} :
              ( /\ load_index(ip, mp, manp)
                /\ fsIndex[ip].exists
                /\ ~fsMetadata[mp].exists ) =>
                  /\ lastOp'.error = "none"
                  /\ index' = fsIndex[ip].data
                  /\ metadata' = EmptyDict ]_vars
    /\ []( (lastOp.op = "search" /\ metadata = EmptyDict /\ ~NothingToSearch(index)) =>
              /\ lastOp.error = "none"
              /\ \A j \in 1..Len(lastOp.results) :
                    /\ lastOp.results[j].metadata = EmptyDict
                    /\ lastOp.results[j].content = ""
                    /\ lastOp.results[j].chunk_id[1] = "chunk_"
                    /\ lastOp.results[j].document_id = <<>> )

C15_Witness ==
    /\ SearchReturned
    /\ metadata = EmptyDict
    /\ ntotal(index) >= 2
    /\ fsIndex["p"].exists /\ fsIndex["p"].data = index
    /\ fsMetadata["p"].exists /\ DOMAIN fsMetadata["p"].data # {}
    /\ Len(lastOp.results) >= 2
    /\ \A j \in 1..Len(lastOp.results) : lastOp.results[j].metadata = EmptyDict

\* C17: add_vectors on an untrained inverted-file index trains it on the
\* incoming batch before appending (a batch the training refuses appends
\* nothing), so that after every successful add_vectors the index is trained;
\* on a flat or already trained index no training step runs: the batch is
\* appended whatever its size and the index is otherwise untouched.
C17_AutoTrainsBeforeAppending ==
    [][ (lastOp'.op = "add_vectors" /\ index # NoIndex
            /\ lastOp'.embeddings = lastOp'.metadata) =>
            LET n == lastOp'.embeddings
            IN  /\ lastOp'.error = "none" => index'.is_trained
                /\ (~index.is_trained /\ n >= index.nlist) =>
                        /\ lastOp'.error = "none"
                        /\ index'.vecs = NextEmbeddings(n)
                /\ (~index.is_trained /\ n < index.nlist) =>
                        /\ lastOp'.error # "none"
                        /\ index' = index
                /\ index.is_trained =>
                        /\ lastOp'.error = "none"
                        /\ index' = [index EXCEPT !.vecs = @ \o NextEmbeddings(n)]
      ]_vars

C17_Witness ==
    /\ AddSucceeded
    /\ index.kind = "IVF"
    /\ index.is_trained
    /\ lastOp.embeddings >= NList
    /\ ntotal(index) = lastOp.embeddings

(* the index is an inverted-file index that has not been trained *)
Untrained(ix) == ix # NoIndex /\ ~ix.is_trained

\* C18: train_index, and the training step of add_vectors, on an untrained
\* inverted-file index given fewer vectors than its nlist fails with a
\* NotReadyError and leaves the index untrained, with its vector count and
\* the metadata mapping unchanged.
C18_TooFewVectorsIsNotReadyError ==
    [][ /\ \A n \in 0..MaxBatch :
              ( /\ train_index(NextEmbeddings(n))
                /\ Untrained(index)
                /\ n < index.nlist ) =>
                  /\ lastOp'.error = "NotReadyError"
                  /\ index' = index /\ metadata' = metadata
        /\ ( /\ lastOp'.op = "add_vectors"
             /\ Untrained(index)
             /\ lastOp'.embeddings = lastOp'.metadata
             /\ lastOp'.embeddings < index.nlist ) =>
                  /\ lastOp'.error = "NotReadyError"
                  /\ index' = index /\ metadata' = metadata
      ]_vars

-----------------------------------------------------------------------------
(* The embedding manager *)

\* C19: generate_embeddings is deterministic: called again on the texts of the
\* call before, it returns the vectors that call returned (the second call
\* being answered from the cache).
C19_SameTextSameVector ==
    [][ ( /\ embedOut.op = "generate_embeddings"
          /\ embedOut'.op = "generate_embeddings"
          /\ embedOut'.texts = embedOut.texts ) =>
            embedOut'.embeddings = embedOut.embeddings ]_vars

-----------------------------------------------------------------------------
(* The chatbot *)

SaysNoHits(reply) == \E i \in 1..Len(reply) : reply[i] = NoHitsText

SaysFault(reply) == \E i \in 1..Len(reply) : reply[i] = "[Error]: "

(* the retriever ran to its end and handed back no node *)
EmptyRetrieval(out) == out.retrieve = Returned /\ out.nodes = 0

(* the call met a missing retrieval engine, a missing index, or a retriever or
   LLM call that raised *)
InfrastructureFault(out) ==
    \/ out.engine = "missing"
    \/ out.engine = Returned /\ out.retrieve = NotCalled
    \/ out.raised # "none"

\* C20: the "no relevant results" reply is given only for a question whose
\* retrieval ran to its end and returned no hits, in this call or in the call
\* whose cached answer is replayed; a call that meets an infrastructure fault
\* (engine or index missing, retriever or LLM raising) never gives that reply,
\* and a call whose retrieval returned no hits never gives the fault reply.
C20_NoHitsAndFaultKeptApart ==
    [][ botOut'.op = "process_query" =>
          LET out == botOut'
              q == botOut'.user_question
          IN  /\ SaysNoHits(out.returned) =>
                    \/ EmptyRetrieval(out)
                    \/ /\ out.classifier = NotCalled
                       /\ q \in DOMAIN chat_memory_buffer
                       /\ chat_memory_buffer[q] = NoHitsResponse
              /\ ( /\ q \notin DOMAIN chat_memory_buffer
                   /\ q \in DOMAIN chat_memory_buffer'
                   /\ SaysNoHits(Format(chat_memory_buffer'[q])) ) =>
                    EmptyRetrieval(out)
              /\ InfrastructureFault(out) => ~SaysNoHits(out.returned)
              /\ EmptyRetrieval(out) =>
                    /\ out.raised = "none"
                    /\ ~SaysFault(out.returned)
      ]_vars

C20_Witness ==
    /\ botOut.op = "process_query"
    /\ EmptyRetrieval(botOut)
    /\ botOut.returned = <<" ">> \o Format(NoHitsResponse)

-----------------------------------------------------------------------------
(* The size field of a chunk *)

\* C29: every chunk returned by chunk_text has a size field equal to the
\* character length of its content field.
C29_SizeIsContentLength ==
    cpc = "done" => \A i \in 1..Len(chunks) : chunks[i].size = Len(chunks[i].content)

-----------------------------------------------------------------------------
(* The answer cache of the chatbot *)

\* C30: a question whose retrieval answer was returned is answered from the
\* cache ever after: process_query stores the answer it returns, no later call
\* changes or drops a stored answer, and a call on a stored question returns
\* "[Cache Hit]: " followed by that answer without asking the classifier or
\* the retrieval engine; a question classified as non-Vietnamese or off-topic
\* stores nothing.
C30_AnsweredFromCacheEverAfter ==
    [][ \A q \in Questions : process_query(q) =>
          /\ \A k \in DOMAIN chat_memory_buffer :
                /\ k \in DOMAIN chat_memory_buffer'
                /\ chat_memory_buffer'[k] = chat_memory_buffer[k]
          /\ q \in DOMAIN chat_memory_buffer =>
                /\ botOut'.returned =
                       <<"[Cache Hit]: ">> \o Format(chat_memory_buffer[q])
                /\ botOut'.classifier = NotCalled
                /\ botOut'.engine = NotCalled
                /\ botOut'.retrieve = NotCalled
                /\ botOut'.llm = NotCalled
          /\ ( /\ q \notin DOMAIN chat_memory_buffer
               /\ botOut'.engine = Returned ) =>
                /\ q \in DOMAIN chat_memory_buffer'
                /\ botOut'.returned = <<" ">> \o Format(chat_memory_buffer'[q])
          /\ ( /\ q \notin DOMAIN chat_memory_buffer
               /\ botOut'.classification # 1 ) =>
                chat_memory_buffer' = chat_memory_buffer
      ]_vars

(* a cached answer replayed while another question's answer is stored too *)
C30_Witness ==
    /\ botOut.op = "process_query"
    /\ botOut.classifier = NotCalled
    /\ Cardinality(DOMAIN chat_memory_buffer) = 2
    /\ botOut.returned = <<"[Cache Hit]: ">> \o Format(chat_memory_buffer[botOut.user_question])

-----------------------------------------------------------------------------
(* Similarity scores of a search *)

(* 0 <= score <= 1 *)
InUnitInterval(score) == 0 <= score.num /\ score.num <= score.den

\* C22: every similarity_score search returns lies in [0, 1], and among the
\* hits of one query a hit at a smaller L2 distance never scores less than a
\* hit at a larger distance.
C22_ScoresInUnitIntervalAndMonotone ==
    SearchReturned =>
        /\ \A i \in 1..Len(lastOp.results) :
              InUnitInterval(lastOp.results[i].similarity_score)
        /\ \A slots \in FaissSearch(index, lastOp.query, OrDefault(lastOp.k, ConfigTopK)) :
              LET max_distance == MaxOf({slots[j].dist : j \in 1..Len(slots)})
                  threshold == OrDefault(lastOp.confidence_threshold, ConfigConfidence)
                  score(j) == Similarity(slots[j].dist, max_distance)
                  hit(j) == slots[j].idx # -1 /\ ScoreAtLeast(score(j), threshold)
              IN  \A i, j \in 1..Len(slots) :
                    (hit(i) /\ hit(j) /\ slots[i].dist < slots[j].dist) =>
                        ScoreGE(score(i), score(j))

(* two hits of one search with different scores *)
C22_Witness ==
    /\ SearchReturned
    /\ \E i, j \in 1..Len(lastOp.results) :
          ~ScoreGE(lastOp.results[j].similarity_score,
                   lastOp.results[i].similarity_score)

-----------------------------------------------------------------------------
(* The candidate at the batch's maximum distance *)

(* the distances of the candidates of one index.search answer that search
   returns as hits under the threshold in force *)
KeptDistances(slots, threshold) ==
    LET max_distance == MaxOf({slots[j].dist : j \in 1..Len(slots)})
        keeps(s) == s.idx # -1 /\ ScoreAtLeast(Similarity(s.dist, max_distance), threshold)
    IN  [j \in 1..Len(SelectSeq(slots, keeps)) |-> SelectSeq(slots, keeps)[j].dist]

(* in the search that lastOp records, no returned hit is a candidate at the
   batch's maximum distance when that maximum is positive; and with k = 1 a
   hit is returned only if some stored vector is at distance zero *)
FarthestExcluded ==
    /\ \A slots \in FaissSearch(index, lastOp.query, OrDefault(lastOp.k, ConfigTopK)) :
          LET max_distance == MaxOf({slots[j].dist : j \in 1..Len(slots)})
              threshold == OrDefault(lastOp.confidence_threshold, ConfigConfidence)
              kept == KeptDistances(slots, threshold)
          IN  ( /\ max_distance > 0
                /\ lastOp.results = Hits(slots, 1, threshold, metadata) ) =>
                    \A j \in 1..Len(kept) : kept[j] # max_distance
    /\ (lastOp.k = 1 /\ Len(lastOp.results) >= 1) =>
          \E id \in 0..(ntotal(index) - 1) : Distance(index.vecs[id + 1], lastOp.query) = 0

\* C28 (as stated): in every search whose candidates have a strictly positive
\* maximum distance, the candidate at that distance is excluded under the
\* effective threshold; search with k = 1 returns a hit only when the nearest
\* vector is at distance zero.
C28_FarthestAlwaysExcluded == SearchReturned => FarthestExcluded

\* C28 (amended): the same, for the searches whose effective threshold (the one
\* passed, or the configured one when the one passed is falsy) is positive.
C28_FarthestExcludedUnderPositiveThreshold ==
    ( /\ SearchReturned
      /\ OrDefault(lastOp.confidence_threshold, ConfigConfidence) > 0 ) =>
        FarthestExcluded

(* a search with k = 1 over several vectors that returned its hit *)
C28_Witness ==
    /\ SearchReturned
    /\ OrDefault(lastOp.confidence_threshold, ConfigConfidence) > 0
    /\ lastOp.k = 1
    /\ ntotal(index) >= 2
    /\ Len(lastOp.results) = 1

-----------------------------------------------------------------------------
(* The manifest on disk *)

\* C23: every manifest dict d that to_dict wrote to a manifest file is read
\* back by from_dict and written again by to_dict as d itself; created_at
\* stays one ISO-8601 timestamp with a single "Z" suffix.
C23_ManifestDictRoundTrip ==
    \A path \in Paths :
        fsManifest[path].exists =>
            LET d == fsManifest[path].data
                loaded == from_dict(d)
            IN  /\ loaded # << >>
                /\ to_dict(loaded[1]) = d

\* C27: after every successful load_index the manifest the manager holds is
\* the one read from manifest_path during that load, or absent; a manifest left
\* by an earlier save_index or load_index is not kept.
C27_NoStaleManifestAfterLoad ==
    [][ \A ip \in Paths, mp \in Paths, manp \in Paths \cup {""} :
          (load_index(ip, mp, manp) /\ lastOp'.error = "none") =>
              IF manp # "" /\ fsManifest[manp].exists
              THEN <<manifest'>> = from_dict(fsManifest[manp].data)
              ELSE manifest' = NoManifest
      ]_vars

\* C26: a load_index call that fails leaves the manager as it was before the
\* call: index, metadata mapping and manifest unchanged, whichever of the
\* three files made it fail.
C26_FailedLoadChangesNothing ==
    [][ (lastOp'.op = "load_index" /\ lastOp'.error # "none") =>
          /\ index' = index
          /\ metadata' = metadata
          /\ manifest' = manifest
      ]_vars

-----------------------------------------------------------------------------
(* Calls through the retry decorator *)

(* how a call through the decorator ends: a retryable failure at the last
   attempt allowed ends the call in failure, no sleep follows it; an exception
   outside the retryable set is raised to the caller by the attempt that met
   it; a function that raises nothing retryable is invoked once *)
RetryEndsAsConfigured ==
    /\ (last_exception \in RetryableExceptions /\ invocations >= max_attempts) =>
          retry_pc = "raised" /\ retry_raised = "RetryError"
    /\ retry_pc = "sleeping" => invocations < max_attempts
    /\ last_exception \notin RetryableExceptions \cup {"none"} =>
          retry_pc = "raised" /\ retry_raised = last_exception
    /\ wrapped = "validate" => invocations <= 1

\* C24 (as stated): a wrapped function is invoked at most max_attempts times
\* per call; when every attempt raises a retryable exception the call ends in
\* failure after the last attempt, and an exception outside the retryable set
\* propagates after exactly one attempt.
C24_AtMostMaxAttempts ==
    /\ invocations <= max_attempts
    /\ RetryEndsAsConfigured

\* C24 (amended): the same for max_attempts >= 1; with max_attempts = 0 the
\* function is still invoked once.
C24_AtMostMaxAttemptsWhenPositive ==
    /\ max_attempts >= 1 => invocations <= max_attempts
    /\ max_attempts = 0 => invocations <= 1
    /\ RetryEndsAsConfigured

(* the default three attempts all failed with a retryable exception *)
C24_Witness ==
    /\ retry_pc = "raised"
    /\ retry_raised = "RetryError"
    /\ max_attempts = ConfigMaxAttempts
    /\ invocations = ConfigMaxAttempts
    /\ wrapped = "bedrock"

\* C25: under the default retry policy a wrapped call that fails because the
\* index type is unsupported, or because the saved index file is missing or
\* unreadable, is attempted exactly once and its failure goes to the caller;
\* only transient backend failures are followed by another attempt.
C25_PermanentFailuresNotRetried ==
    max_attempts = ConfigMaxAttempts =>
        /\ retry_pc = "sleeping" => wrapped = "bedrock"
        /\ (wrapped \in {"create_index", "load_index"} /\ last_exception # "none") =>
              /\ retry_pc = "raised"
              /\ invocations = 1

\* C21: while one thread is in add_vectors and another in search on the same
\* manager, the search never sees a vector in the index whose metadata entry
\* is not stored yet: every hit a search returns carries the metadata of its
\* vector, never the empty placeholder.
C21_WriterExcludesReaders ==
    /\ search_pc = "searched" =>
          \A id \in 0..(ntotal(index) - 1) : id \in DOMAIN metadata
    /\ (lastOp.op = "search" /\ lastOp.error = "none") =>
          \A i \in 1..Len(lastOp.results) : lastOp.results[i].metadata # EmptyDict

====
